---- MODULE Spec2Model ----
(***************************************************************************)
(* Model of kernel/src/ipc/signal_types.rs: the pending-signal state       *)
(* (SigPending = bitset + SigQueue), next_signal selection, collect_signal *)
(* dequeue, and the SigQueue search / purge operations.                    *)
(*                                                                         *)
(* A SigSet is modelled as the set of its set bit positions (0..63); bit   *)
(* (n-1) stands for signal n.  A SigInfo is a record with the fields of    *)
(* the Rust struct.  Option<T> is a sequence of length 0 (None) or 1.      *)
(***************************************************************************)
EXTENDS Integers, Sequences, FiniteSets, Bags, TLC

\* ---------------------------------------------------------------- bounds
\* signals 1..MaxSig are sent, collected and masked in the model
MaxSig == 3
\* the queue holds at most MaxQueue entries in the model
MaxQueue == 2
\* SpecLocked: at most MaxSent enqueues over a run (the accounting bags stay finite)
MaxSent == 3
\* SpecCopy: the user address space has MemCells cells
MemCells == 7

\* ------------------------------------------------------------- constants
\* _NSIG: number of signals, width of a SigSet
NSIG == 64
\* Signal::INVALID
INVALID == 0

\* ----------------------------------------------------------------- state
VARIABLES
    signal,       \* SigPending.signal : SigSet
    q,            \* SigPending.queue.q : Vec<SigInfo>
    last,         \* the last call made and what it returned
    fastPending,  \* history: signals asserted by set_fast since their last collect
    lock,         \* SpecLocked: holder of the pending's lock (0 = free)
    pc,           \* SpecLocked: position of each thread
    rx,           \* SpecLocked: the receiver's locals inside collect_signal
    sent,         \* SpecLocked history: bag of every SigInfo enqueued
    got,          \* SpecLocked history: bag of every queued SigInfo a collect returned
    sigaction,    \* SpecAction: the Sigaction that ignore() is called on
    umem,         \* SpecCopy: the user address space, one word per cell
    drain         \* SpecDrain: the receiver's drain loop (iterations, initial budget)

vars == <<signal, q, last, fastPending, lock, pc, rx, sent, got, sigaction, umem, drain>>

\* ------------------------------------------------------------ value sets
SigNums == 1..MaxSig
\* pids of the senders
Pids == {100, 200}
AllBits == 0..(NSIG - 1)
\* the masks the callers pass: any set of the modelled signals
Masks == SUBSET {n - 1 : n \in SigNums}
\* SpecSelect: the low bits and the two top bits of the 64-bit word
SelectBits == {n - 1 : n \in SigNums} \cup {NSIG - 2, NSIG - 1}

\* SigInfo::new(sig, errno, code, reserved, sig_type)
SigInfoNew(sig, sig_errno, sig_code, reserved, sig_type) ==
    [sig_no |-> sig, sig_code |-> sig_code, errno |-> sig_errno,
     reserved |-> reserved, sig_type |-> sig_type]

\* SigType::Kill(pid)
Kill(pid) == [Kill |-> pid]

\* the records senders enqueue
Infos == {SigInfoNew(n, 0, "SI_USER", 0, Kill(p)) : n \in SigNums, p \in Pids}

\* ------------------------------------------------------ SigSet (bitflags)
\* Signal::into_sigset / Into<SigSet> for Signal: bit (sig-1)
into_sigset(sig) == {sig - 1}

union(a, b) == a \cup b
intersection(a, b) == a \cap b
complement(a) == AllBits \ a
contains(a, b) == b \subseteq a
remove(a, b) == a \ b
insert(a, b) == a \cup b

\* SigSet::from_bits_truncate(bits): the set whose bit pattern is the integer
RECURSIVE bits_from(_, _)
bits_from(bits, i) ==
    IF bits = 0 \/ i >= NSIG THEN {}
    ELSE (IF bits % 2 = 1 THEN {i} ELSE {}) \cup bits_from(bits \div 2, i + 1)

from_bits_truncate(bits) == bits_from(bits, 0)

\* ------------------------------------------------- Signal (POSIX numbering)
SIGQUIT == 3
SIGILL == 4
SIGTRAP == 5
SIGABRT_OR_IOT == 6
SIGBUS == 7
SIGFPE == 8
SIGKILL == 9
SIGSEGV == 11
SIGCHLD == 17
SIGCONT == 18
SIGSTOP == 19
SIGTSTP == 20
SIGTTIN == 21
SIGTTOU == 22
SIGURG == 23
SIGXCPU == 24
SIGXFSZ == 25
SIGWINCH == 28
SIGIO_OR_POLL == 29
SIGSYS == 31

SIG_KERNEL_ONLY_MASK == union(into_sigset(SIGSTOP), into_sigset(SIGKILL))

SIG_KERNEL_STOP_MASK ==
    union(union(union(into_sigset(SIGSTOP), into_sigset(SIGTSTP)),
                into_sigset(SIGTTIN)), into_sigset(SIGTTOU))

SIG_KERNEL_COREDUMP_MASK ==
    UNION {into_sigset(n) : n \in {SIGQUIT, SIGILL, SIGTRAP, SIGABRT_OR_IOT, SIGFPE,
                                   SIGSEGV, SIGBUS, SIGSYS, SIGXCPU, SIGXFSZ}}

SIG_KERNEL_IGNORE_MASK ==
    UNION {into_sigset(n) : n \in {SIGCONT, SIGFPE, SIGSEGV, SIGBUS, SIGTRAP,
                                   SIGCHLD, SIGIO_OR_POLL, SIGSYS}}

\* ffz(word): index of the first zero bit of the word, scanning from bit 0
RECURSIVE ffz_from(_, _)
ffz_from(word, i) == IF i \notin word \/ i >= NSIG THEN i ELSE ffz_from(word, i + 1)

ffz(word) == ffz_from(word, 0)

\* ---------------------------------------------------------------- SigQueue
\* Vec::drain_filter with find_and_delete's closure: one pass over the
\* queue, carrying the closure's captured `first` and `still_pending`.
RECURSIVE drain_first(_, _, _, _, _, _)
drain_first(qq, sig, i, first, still_pending, acc) ==
    IF i > Len(qq)
    THEN [kept |-> acc.kept, removed |-> acc.removed, still_pending |-> still_pending]
    ELSE IF qq[i].sig_no = sig
         THEN IF ~first
              THEN drain_first(qq, sig, i + 1, first, TRUE,
                       [acc EXCEPT !.kept = Append(@, qq[i])])
              ELSE drain_first(qq, sig, i + 1, FALSE, still_pending,
                       [acc EXCEPT !.removed = Append(@, qq[i])])
         ELSE drain_first(qq, sig, i + 1, first, still_pending,
                  [acc EXCEPT !.kept = Append(@, qq[i])])

\* the loop of find: info is the first match seen so far; the scan breaks at
\* the second match
RECURSIVE find_scan(_, _, _, _)
find_scan(qq, sig, i, info) ==
    IF i > Len(qq)
    THEN [info |-> info, still_pending |-> FALSE]
    ELSE IF qq[i].sig_no = sig
         THEN IF info # <<>>
              THEN [info |-> info, still_pending |-> TRUE]
              ELSE find_scan(qq, sig, i + 1, <<qq[i]>>)
         ELSE find_scan(qq, sig, i + 1, info)

\* mutant: the first match already reports that more are pending
find_eager(qq, sig) ==
    [info |-> find_scan(qq, sig, 1, <<>>).info,
     still_pending |-> find_scan(qq, sig, 1, <<>>).info # <<>>]

\* SigQueue::find(sig) -> (Option<&SigInfo>, bool); the reference is modelled
\* by the entry it points to
find(qq, sig) == find_scan(qq, sig, 1, <<>>)

\* Vec::pop as an Option: the last element, if any
pop(v) == IF Len(v) = 0 THEN <<>> ELSE <<v[Len(v)]>>

\* mutant: the scan takes the last matching entry instead of the first
find_and_delete_last(qq, sig) ==
    LET ms == {i \in DOMAIN qq : qq[i].sig_no = sig}
        l == CHOOSE i \in ms : \A j \in ms : j <= i
    IN  IF ms = {} THEN [q |-> qq, info |-> <<>>, still_pending |-> FALSE]
        ELSE [q |-> SubSeq(qq, 1, l - 1) \o SubSeq(qq, l + 1, Len(qq)),
              info |-> <<qq[l]>>, still_pending |-> Cardinality(ms) >= 2]

\* mutant: the filter drains every matching entry
find_and_delete_all(qq, sig) ==
    LET gone == SelectSeq(qq, LAMBDA x : x.sig_no = sig)
    IN  [q |-> SelectSeq(qq, LAMBDA x : x.sig_no # sig), info |-> pop(gone),
         still_pending |-> FALSE]

\* SigQueue::find_and_delete(sig) -> (Option<SigInfo>, bool), and the queue left
find_and_delete(qq, sig) ==
    LET r == drain_first(qq, sig, 1, TRUE, FALSE, [kept |-> <<>>, removed |-> <<>>])
    IN  [q |-> r.kept, info |-> pop(r.removed), still_pending |-> r.still_pending]

\* mutant: an entry is drained only when its pattern is the whole mask
flush_filter_eq(mask, x) == mask = from_bits_truncate(x.sig_no)

\* the closure of flush_by_mask: TRUE = drain this entry
flush_filter(mask, x) == contains(mask, from_bits_truncate(x.sig_no))

\* SigQueue::flush_by_mask(mask): the queue left
flush_by_mask(qq, mask) == SelectSeq(qq, LAMBDA x : ~flush_filter(mask, x))

\* -------------------------------------------------------------- SigPending
\* mutant: the block mask is not applied
next_signal_unmasked(s, m) ==
    IF s # {} THEN ffz(complement(s)) + 1 ELSE INVALID

\* mutant: the scan runs from the top bit down (last set bit, not first)
next_signal_highest(s, m) ==
    LET x == intersection(s, complement(m))
    IN  IF x # {} THEN (CHOOSE i \in x : \A j \in x : j <= i) + 1 ELSE INVALID

\* SigPending::next_signal(sig_mask)
next_signal(s, m) ==
    LET x == intersection(s, complement(m))
    IN  IF x # {} THEN ffz(complement(x)) + 1 ELSE INVALID

\* mutant: the test of still_pending is inverted
clear_pending_inverted(s, sig, still_pending) ==
    IF still_pending THEN remove(s, into_sigset(sig)) ELSE s

\* mutant: the bit one above the signal's is the one cleared
clear_pending_off_by_one(s, sig, still_pending) ==
    IF ~still_pending THEN remove(s, {sig}) ELSE s

\* mutant: the bit is cleared whether or not entries remain
clear_pending_always(s, sig, still_pending) == remove(s, into_sigset(sig))

\* collect_signal, lines 398-400: clear the pending bit unless still pending
clear_pending(s, sig, still_pending) ==
    IF ~still_pending THEN remove(s, into_sigset(sig)) ELSE s

\* mutant: an all-zero record
synth_info_zero(sig) == SigInfoNew(0, 0, "SI_USER", 0, Kill(0))

\* collect_signal, lines 405-408: the record made up for a fast-path signal
synth_info(sig) == SigInfoNew(sig, 0, "SI_USER", 0, Kill(0))

\* collect_signal, lines 402-409: what is returned
collect_result(info, sig) == IF info # <<>> THEN info[1] ELSE synth_info(sig)


\* ---------------------------------------------------------------- Sigaction
\* SigactionType::SaHandler(SaHandlerType) and SigactionType::SaSigaction(fn)
SaHandler(h) == [kind |-> "SaHandler", handler |-> h]
SaSigaction(f) == [kind |-> "SaSigaction", handler |-> [type |-> "fn", addr |-> f]]

\* SaHandlerType
SigError == [type |-> "SigError", addr |-> 2]
SigDefault == [type |-> "SigDefault", addr |-> 0]
SigIgnore == [type |-> "SigIgnore", addr |-> 1]
SigCustomized(h) == [type |-> "SigCustomized", addr |-> h]

\* Sigaction::new(action, flags, mask, restorer)
SigactionNew(action, flags, mask, restorer) ==
    [action |-> action, flags |-> flags, mask |-> mask, restorer |-> restorer]

\* Sigaction::default()
SigactionDefault == SigactionNew(SaHandler(SigDefault), {}, {}, <<>>)

\* mutant: the SA_FLAG_DFL test is dropped
ignore_any_flags(sa, sig) ==
    IF "SA_FLAG_IGN" \in sa.flags THEN TRUE
    ELSE IF sa.action = SaHandler(SigIgnore) THEN TRUE
    ELSE FALSE

\* Sigaction::ignore(_sig)
ignore(sa, sig) ==
    IF contains(sa.flags, {"SA_FLAG_IGN"}) THEN TRUE
    ELSE IF contains(sa.flags, {"SA_FLAG_DFL"}) /\ sa.action = SaHandler(SigIgnore) THEN TRUE
    ELSE FALSE

\* the Sigactions and signals ignore() is tried on
SigactionTypes == {SaHandler(SigError), SaHandler(SigDefault), SaHandler(SigIgnore),
                   SaHandler(SigCustomized(4096)), SaSigaction(4096)}
SigFlagSets == SUBSET {"SA_FLAG_IGN", "SA_FLAG_DFL", "SA_FLAG_RESTART"}
Sigactions == {SigactionNew(a, f, m, r) : a \in SigactionTypes, f \in SigFlagSets,
                                          m \in {{}, {0}}, r \in {<<>>, <<8192>>}}
IgnoreSigs == {1, SIGKILL, SIGCHLD, SIGCONT, SIGFPE, SIGURG}

\* ---------------------------------------------------------- user memory
\* user cells 0..MemCells-1; the two addresses above them are not user space
Addrs == 0..(MemCells + 1)

\* ------------------------------------------------------------ drain loop
DrainIdle == [iters |-> 0, budget |-> 0]

\* ----------------------------------------------------------------- Init
NoCall == [op |-> "none", sig |-> 0, mask |-> {}, was_pending |-> FALSE,
           found |-> <<>>, still_pending |-> FALSE, ret |-> <<>>, to |-> 0]

RxIdle == [sig |-> 0, info |-> <<>>, still_pending |-> FALSE, q_left |-> <<>>]

Threads == {1, 2, 3}
Senders == {1, 2}
Receiver == 3

\* the state outside the SigPending: a default Sigaction, zeroed user memory,
\* no drain loop running
AuxInit ==
    /\ sigaction = SigactionDefault
    /\ umem = [a \in Addrs |-> 0]
    /\ drain = DrainIdle

\* SigPending::default(): empty bitset, empty queue; nobody holds the lock
Init ==
    /\ signal = {}
    /\ q = <<>>
    /\ last = NoCall
    /\ fastPending = {}
    /\ lock = 0
    /\ pc = [t \in Threads |-> "idle"]
    /\ rx = RxIdle
    /\ sent = EmptyBag
    /\ got = EmptyBag
    /\ AuxInit

LockedUnchanged == UNCHANGED <<lock, pc, rx, sent, got, sigaction, umem, drain>>

\* ------------------------------------------- actions on one SigPending
\* enqueue(info): append to the queue and set the signal's bit
Enqueue ==
    \E info \in Infos :
        /\ Len(q) < MaxQueue
        /\ q' = Append(q, info)
        /\ signal' = insert(signal, into_sigset(info.sig_no))
        /\ last' = [NoCall EXCEPT !.op = "enqueue", !.sig = info.sig_no]
        /\ UNCHANGED fastPending
        /\ LockedUnchanged

\* set_fast(sig): set the bit only
SetFast ==
    \E sig \in SigNums :
        /\ signal' = insert(signal, into_sigset(sig))
        /\ fastPending' = fastPending \cup {sig}
        /\ last' = [NoCall EXCEPT !.op = "set_fast", !.sig = sig]
        /\ UNCHANGED q
        /\ LockedUnchanged

\* collect_signal(sig)
CollectSignal ==
    \E sig \in SigNums :
        LET r == find_and_delete(q, sig)
        IN  /\ q' = r.q
            /\ signal' = clear_pending(signal, sig, r.still_pending)
            /\ fastPending' = fastPending \ {sig}
            /\ last' = [NoCall EXCEPT !.op = "collect_signal", !.sig = sig,
                                      !.was_pending = contains(signal, into_sigset(sig)),
                                      !.ret = <<collect_result(r.info, sig)>>]
            /\ LockedUnchanged

\* mutant: the flush also clears the flushed signals' bits
FlushByMaskClearing ==
    \E m \in Masks :
        /\ q' = flush_by_mask(q, m)
        /\ signal' = remove(signal, m)
        /\ last' = [NoCall EXCEPT !.op = "flush_by_mask", !.mask = m]
        /\ UNCHANGED fastPending
        /\ LockedUnchanged

\* queue_mut().flush_by_mask(mask) on the pending's queue
FlushByMask ==
    \E m \in Masks :
        /\ q' = flush_by_mask(q, m)
        /\ last' = [NoCall EXCEPT !.op = "flush_by_mask", !.mask = m]
        /\ UNCHANGED <<signal, fastPending>>
        /\ LockedUnchanged

Next == Enqueue \/ SetFast \/ CollectSignal \/ FlushByMask

Spec == Init /\ [][Next]_vars

\* the senders and the receiver alone: no purge
NextSend == Enqueue \/ SetFast \/ CollectSignal

SpecSend == Init /\ [][NextSend]_vars

\* ------------------------------------------------ next_signal on its own
\* any pending set over SelectBits (each is reached by set_fast calls)
InitSelect ==
    /\ signal \in SUBSET SelectBits
    /\ q = <<>>
    /\ last = NoCall
    /\ fastPending = {}
    /\ lock = 0
    /\ pc = [t \in Threads |-> "idle"]
    /\ rx = RxIdle
    /\ sent = EmptyBag
    /\ got = EmptyBag
    /\ AuxInit

\* next_signal(sig_mask): a read of the snapshot
NextSignal ==
    \E m \in SUBSET SelectBits :
        /\ last' = [NoCall EXCEPT !.op = "next_signal", !.mask = m,
                                  !.sig = next_signal(signal, m)]
        /\ UNCHANGED <<signal, q, fastPending>>
        /\ LockedUnchanged

NextSelect == NextSignal

SpecSelect == InitSelect /\ [][NextSelect]_vars

\* any pending set over SelectBits and the two kernel-only signals
InitKernelOnly ==
    /\ signal \in SUBSET (SelectBits \cup SIG_KERNEL_ONLY_MASK)
    /\ q = <<>>
    /\ last = NoCall
    /\ fastPending = {}
    /\ lock = 0
    /\ pc = [t \in Threads |-> "idle"]
    /\ rx = RxIdle
    /\ sent = EmptyBag
    /\ got = EmptyBag
    /\ AuxInit

SpecKernelOnly == InitKernelOnly /\ [][NextSelect]_vars

\* ------------------------------------------------- a Sigaction on its own
\* any Sigaction built by Sigaction::new
InitAction ==
    /\ signal = {}
    /\ q = <<>>
    /\ last = NoCall
    /\ fastPending = {}
    /\ lock = 0
    /\ pc = [t \in Threads |-> "idle"]
    /\ rx = RxIdle
    /\ sent = EmptyBag
    /\ got = EmptyBag
    /\ sigaction \in Sigactions
    /\ umem = [a \in Addrs |-> 0]
    /\ drain = DrainIdle

\* sigaction.ignore(sig)
Ignore ==
    \E sig \in IgnoreSigs :
        /\ last' = [NoCall EXCEPT !.op = "ignore", !.sig = sig,
                                  !.ret = ignore(sigaction, sig)]
        /\ UNCHANGED <<signal, q, fastPending>>
        /\ LockedUnchanged

NextAction == Ignore

SpecAction == InitAction /\ [][NextAction]_vars

\* ------------------------------------------- copying a SigInfo to user space
\* Result<T, SystemError>
Ok(v) == [Ok |-> v]
Err(e) == [Err |-> e]

\* SigCode as the integer stored in the record
sig_code_word(c) == IF c = "SI_USER" THEN 0 ELSE 1

\* #[repr(C)] struct SigInfo: the fields in declaration order, one word each
SigInfoWords(info) ==
    <<info.sig_no, sig_code_word(info.sig_code), info.errno, info.reserved,
      info.sig_type.Kill>>

\* size_of::<SigInfo>(), in words
size_of_SigInfo == Len(SigInfoWords(synth_info(INVALID)))

\* UserBufferWriter::new(addr, len, true): the whole range must be user space
UserBufferWriterNew(addr, len) ==
    IF \A a \in addr..(addr + len - 1) : a \in 0..(MemCells - 1)
    THEN Ok([addr |-> addr, len |-> len])
    ELSE Err("EFAULT")

\* UserBufferWriter::copy_one_to_user(src, offset): writes the words of src
copy_one_to_user(mem, buf, words, offset) ==
    [a \in DOMAIN mem |->
        IF a - buf.addr - offset + 1 \in 1..Len(words)
        THEN words[a - buf.addr - offset + 1]
        ELSE mem[a]]

\* mutant: the copy is made before the range is validated
copy_siginfo_to_user_unchecked(info, to, mem) ==
    LET user_buffer == UserBufferWriterNew(to, size_of_SigInfo)
        written == copy_one_to_user(mem, [addr |-> to, len |-> size_of_SigInfo],
                                    SigInfoWords(info), 0)
    IN  IF "Err" \in DOMAIN user_buffer
        THEN [ret |-> user_buffer, mem |-> written]
        ELSE [ret |-> Ok(0), mem |-> written]

\* SigInfo::copy_siginfo_to_user(to): the result and the user memory afterwards
copy_siginfo_to_user(info, to, mem) ==
    LET user_buffer == UserBufferWriterNew(to, size_of_SigInfo)
    IN  IF "Err" \in DOMAIN user_buffer
        THEN [ret |-> user_buffer, mem |-> mem]
        ELSE [ret |-> Ok(0),
              mem |-> copy_one_to_user(mem, user_buffer.Ok, SigInfoWords(info), 0)]

\* one record queued and pending, zeroed user memory
InitCopy ==
    /\ \E info \in Infos :
        /\ q = <<info>>
        /\ signal = into_sigset(info.sig_no)
    /\ last = NoCall
    /\ fastPending = {}
    /\ lock = 0
    /\ pc = [t \in Threads |-> "idle"]
    /\ rx = RxIdle
    /\ sent = EmptyBag
    /\ got = EmptyBag
    /\ AuxInit

\* q[i].copy_siginfo_to_user(to)
CopySiginfoToUser ==
    \E i \in 1..Len(q), to \in Addrs :
        LET r == copy_siginfo_to_user(q[i], to, umem)
        IN  /\ umem' = r.mem
            /\ last' = [NoCall EXCEPT !.op = "copy_siginfo_to_user", !.sig = i,
                                      !.to = to, !.ret = r.ret]
            /\ UNCHANGED <<signal, q, fastPending, lock, pc, rx, sent, got,
                           sigaction, drain>>

NextCopy == CopySiginfoToUser

SpecCopy == InitCopy /\ [][NextCopy]_vars

\* ---------------------------------------------------- a SigQueue on its own
\* the queues of at most n records
QueuesUpTo(n) == UNION {[1..k -> Infos] : k \in 0..n}

BoundedQueues == UNION {[1..n -> Infos] : n \in 0..MaxQueue}

\* any queue of at most MaxQueue records
InitQueue ==
    /\ signal = {}
    /\ q \in BoundedQueues
    /\ last = NoCall
    /\ fastPending = {}
    /\ lock = 0
    /\ pc = [t \in Threads |-> "idle"]
    /\ rx = RxIdle
    /\ sent = EmptyBag
    /\ got = EmptyBag
    /\ AuxInit

\* SigQueue::find_and_delete(sig)
QueueFindAndDelete ==
    \E sig \in SigNums :
        LET r == find_and_delete(q, sig)
        IN  /\ q' = r.q
            /\ last' = [NoCall EXCEPT !.op = "find_and_delete", !.sig = sig,
                                      !.found = r.info,
                                      !.still_pending = r.still_pending]
            /\ UNCHANGED <<signal, fastPending>>
            /\ LockedUnchanged

\* SigQueue::find(sig)
QueueFind ==
    \E sig \in SigNums :
        LET r == find(q, sig)
        IN  /\ last' = [NoCall EXCEPT !.op = "find", !.sig = sig,
                                      !.found = r.info,
                                      !.still_pending = r.still_pending]
            /\ UNCHANGED <<signal, q, fastPending>>
            /\ LockedUnchanged

\* the exit-time purge: flush_by_mask with every bit of the mask set
QueueFlushAll ==
    /\ q' = flush_by_mask(q, AllBits)
    /\ last' = [NoCall EXCEPT !.op = "queue_flush_all", !.mask = AllBits,
                              !.was_pending = (q # <<>>)]   \* entries were queued
    /\ UNCHANGED <<signal, fastPending>>
    /\ LockedUnchanged

\* SigQueue::flush_by_mask(mask)
QueueFlushByMask ==
    \E m \in Masks :
        /\ q' = flush_by_mask(q, m)
        /\ last' = [NoCall EXCEPT !.op = "queue_flush_by_mask", !.mask = m]
        /\ UNCHANGED <<signal, fastPending>>
        /\ LockedUnchanged

NextQueue == QueueFindAndDelete \/ QueueFlushByMask \/ QueueFlushAll \/ QueueFind

SpecQueue == InitQueue /\ [][NextQueue]_vars

\* ------------------------------------- collecting from any pending state
\* the longest queue a collect or a drain starts from
MaxHeld == MaxQueue + 1

\* any SigPending that enqueue and set_fast can build: every queued record's
\* bit is set, and the bits without a record were set by set_fast
InitCollect ==
    /\ q \in QueuesUpTo(MaxHeld)
    /\ signal \in SUBSET {n - 1 : n \in SigNums}
    /\ \A i \in DOMAIN q : contains(signal, into_sigset(q[i].sig_no))
    /\ fastPending = {n \in SigNums : /\ contains(signal, into_sigset(n))
                                      /\ \A i \in DOMAIN q : q[i].sig_no # n}
    /\ last = NoCall
    /\ lock = 0
    /\ pc = [t \in Threads |-> "idle"]
    /\ rx = RxIdle
    /\ sent = EmptyBag
    /\ got = EmptyBag
    /\ AuxInit

NextCollect == CollectSignal

SpecCollect == InitCollect /\ [][NextCollect]_vars

\* ------------------------------------------------- the receiver's drain loop
\* any pending state, and a loop that has not yet run; budget is the bound on
\* its iterations: one per queued record and one per set bit
InitDrain ==
    /\ q \in QueuesUpTo(MaxHeld)
    /\ signal \in SUBSET {n - 1 : n \in SigNums}
    /\ \A i \in DOMAIN q : contains(signal, into_sigset(q[i].sig_no))
    /\ fastPending = {n \in SigNums : /\ contains(signal, into_sigset(n))
                                      /\ \A i \in DOMAIN q : q[i].sig_no # n}
    /\ last = NoCall
    /\ lock = 0
    /\ pc = [t \in Threads |-> "idle"]
    /\ rx = RxIdle
    /\ sent = EmptyBag
    /\ got = EmptyBag
    /\ sigaction = SigactionDefault
    /\ umem = [a \in Addrs |-> 0]
    /\ drain = [iters |-> 0, budget |-> Len(q) + Cardinality(signal)]

\* one iteration: sig = next_signal(empty mask); stop on INVALID; collect_signal(sig).
\* The iteration count is capped one above the budget.
DrainStep ==
    LET sig == next_signal(signal, {})
        r == find_and_delete(q, sig)
    IN  /\ sig # INVALID
        /\ drain.iters <= drain.budget
        /\ q' = r.q
        /\ signal' = clear_pending(signal, sig, r.still_pending)
        /\ fastPending' = fastPending \ {sig}
        /\ last' = [NoCall EXCEPT !.op = "collect_signal", !.sig = sig,
                                  !.was_pending = contains(signal, into_sigset(sig)),
                                  !.ret = <<collect_result(r.info, sig)>>]
        /\ drain' = [drain EXCEPT !.iters = @ + 1]
        /\ UNCHANGED <<lock, pc, rx, sent, got, sigaction, umem>>

NextDrain == DrainStep

\* the receiver keeps running while a signal is selected
SpecDrain == InitDrain /\ [][NextDrain]_vars /\ WF_vars(DrainStep)

\* ------------------------------------ senders and a receiver under the lock
\* Every SigPending is guarded by the owning task's signal lock; a thread
\* takes it before it calls into the pending and drops it after the call.
Acquire(t) ==
    /\ pc[t] = "idle"
    /\ lock = 0
    /\ lock' = t
    /\ pc' = [pc EXCEPT ![t] = "locked"]
    /\ UNCHANGED <<signal, q, last, fastPending, rx, sent, got, sigaction, umem, drain>>

Release(t) ==
    /\ pc[t] = "unlock"
    /\ lock' = 0
    /\ pc' = [pc EXCEPT ![t] = "idle"]
    /\ UNCHANGED <<signal, q, last, fastPending, rx, sent, got, sigaction, umem, drain>>

\* a sender's enqueue(info)
SendEnqueue(t) ==
    /\ pc[t] = "locked"
    /\ BagCardinality(sent) < MaxSent
    /\ Len(q) < MaxQueue
    /\ \E info \in Infos :
          /\ q' = Append(q, info)
          /\ signal' = insert(signal, into_sigset(info.sig_no))
          /\ sent' = sent (+) SetToBag({info})
    /\ pc' = [pc EXCEPT ![t] = "unlock"]
    /\ UNCHANGED <<last, fastPending, lock, rx, got, sigaction, umem, drain>>

\* a sender's set_fast(sig)
SendSetFast(t) ==
    /\ pc[t] = "locked"
    /\ \E sig \in SigNums :
          /\ signal' = insert(signal, into_sigset(sig))
          /\ fastPending' = fastPending \cup {sig}
    /\ pc' = [pc EXCEPT ![t] = "unlock"]
    /\ UNCHANGED <<q, last, lock, rx, sent, got, sigaction, umem, drain>>

\* the receiver's next_signal(blocked): nothing to deliver, or go on to collect
RxNextSignal ==
    /\ pc[Receiver] = "locked"
    /\ \E m \in Masks :
          LET sig == next_signal(signal, m)
          IN  IF sig = INVALID
              THEN /\ pc' = [pc EXCEPT ![Receiver] = "unlock"]
                   /\ UNCHANGED rx
              ELSE /\ pc' = [pc EXCEPT ![Receiver] = "find"]
                   /\ rx' = [RxIdle EXCEPT !.sig = sig]
    /\ UNCHANGED <<signal, q, last, fastPending, lock, sent, got, sigaction, umem, drain>>

\* collect_signal, line 395: the call of find_and_delete
RxFindAndDelete ==
    /\ pc[Receiver] = "find"
    /\ LET r == find_and_delete(q, rx.sig)
       IN  /\ q' = r.q
           /\ rx' = [rx EXCEPT !.info = r.info, !.still_pending = r.still_pending,
                               !.q_left = r.q]
    /\ pc' = [pc EXCEPT ![Receiver] = "clear"]
    /\ UNCHANGED <<signal, last, fastPending, lock, sent, got, sigaction, umem, drain>>

\* collect_signal, lines 398-400: clearing the pending bit
RxClearPending ==
    /\ pc[Receiver] = "clear"
    /\ signal' = clear_pending(signal, rx.sig, rx.still_pending)
    /\ fastPending' = fastPending \ {rx.sig}
    /\ pc' = [pc EXCEPT ![Receiver] = "return"]
    /\ UNCHANGED <<q, last, lock, rx, sent, got, sigaction, umem, drain>>

\* collect_signal, lines 402-409: the return
RxReturn ==
    /\ pc[Receiver] = "return"
    /\ got' = IF rx.info # <<>>
              THEN got (+) SetToBag({collect_result(rx.info, rx.sig)})
              ELSE got
    /\ rx' = RxIdle
    /\ pc' = [pc EXCEPT ![Receiver] = "unlock"]
    /\ UNCHANGED <<signal, q, last, fastPending, lock, sent, sigaction, umem, drain>>

NextLocked ==
    \/ \E t \in Threads : Acquire(t) \/ Release(t)
    \/ \E t \in Senders : SendEnqueue(t) \/ SendSetFast(t)
    \/ RxNextSignal
    \/ RxFindAndDelete
    \/ RxClearPending
    \/ RxReturn

SpecLocked == Init /\ [][NextLocked]_vars

\* =================================================================
\* Properties
\* =================================================================
\* helpers of the statements (not part of the program)
Matches(qq, sig) == {i \in DOMAIN qq : qq[i].sig_no = sig}

Min(S) == CHOOSE x \in S : \A y \in S : x <= y

RemoveAt(qq, i) == SubSeq(qq, 1, i - 1) \o SubSeq(qq, i + 1, Len(qq))

IsSet(s, n) == (n - 1) \in s

Synthesized(sig) == [sig_no |-> sig, sig_code |-> "SI_USER", errno |-> 0,
                     reserved |-> 0, sig_type |-> [Kill |-> 0]]

\* the signals pending in s and not blocked by m
Ready(s, m) == {n \in 1..NSIG : IsSet(s, n) /\ ~IsSet(m, n)}

\* C1: next_signal(blocked) returns INVALID (0) when signal \ blocked is empty,
\* and otherwise the numerically smallest signal n in 1..64 whose bit (n-1) is
\* set in `signal` and clear in `blocked`; it never returns a blocked signal.
\* (The result is a function of the pending set alone, so the order in which
\* the signals were asserted cannot matter.)
C1_NextSignalSmallestUnblocked ==
    last.op = "next_signal" =>
        /\ Ready(signal, last.mask) = {} => last.sig = INVALID
        /\ Ready(signal, last.mask) # {} => last.sig = Min(Ready(signal, last.mask))
        /\ last.sig # INVALID => ~IsSet(last.mask, last.sig)

\* C1 witness: a lower-numbered pending signal is blocked and a higher one,
\* in the top half of the word, is selected
C1_Witness ==
    /\ last.op = "next_signal"
    /\ last.sig = NSIG - 1
    /\ IsSet(signal, 1) /\ IsSet(last.mask, 1)
    /\ IsSet(signal, NSIG)

\* C2: with k >= 1 entries of sig_no = sig queued, collect_signal(sig) returns
\* the earliest-enqueued of them and removes exactly it, and afterwards bit
\* (sig-1) is set iff k >= 2.  (By induction k successive calls return the k
\* entries in enqueue order, and the bit is cleared by the k-th call only.)
C2_CollectFifo ==
    [][(last'.op = "collect_signal" /\ Matches(q, last'.sig) # {}) =>
          LET sig == last'.sig
              first == Min(Matches(q, sig))
          IN  /\ last'.ret = <<q[first]>>
              /\ q' = RemoveAt(q, first)
              /\ IsSet(signal', sig) <=> Cardinality(Matches(q, sig)) >= 2
      ]_vars

\* C2 witness: a collect returned a queued record of one sender while a later
\* record of the same signal from the other sender stays queued, bit still set
C2_Witness ==
    /\ last.op = "collect_signal"
    /\ last.ret[1].sig_type.Kill = 100
    /\ \E i \in Matches(q, last.sig) : q[i].sig_type.Kill = 200
    /\ IsSet(signal, last.sig)

\* C3: when bit (sig-1) is set and the queue holds no entry for sig (a
\* fast-path send), collect_signal(sig) returns the synthesized record
\* {sig, SI_USER, errno 0, reserved 0, Kill(0)}, clears the bit and leaves
\* the queue unchanged.
C3_CollectFastPath ==
    [][(/\ last'.op = "collect_signal"
        /\ IsSet(signal, last'.sig)
        /\ last'.sig \in fastPending
        /\ Matches(q, last'.sig) = {}) =>
          /\ last'.ret = <<Synthesized(last'.sig)>>
          /\ ~IsSet(signal', last'.sig)
          /\ signal' = signal \ {last'.sig - 1}
          /\ q' = q
      ]_vars

\* C3 witness: a fast-path signal was collected while other records stay queued
C3_Witness ==
    /\ last.op = "collect_signal"
    /\ last.was_pending
    /\ last.ret = <<Synthesized(last.sig)>>
    /\ ~IsSet(signal, last.sig)
    /\ Len(q) > 0

\* C4: over enqueue / set_fast / collect_signal, a set bit (n-1) has an
\* assertion of n behind it that no collect has consumed: a record of n still
\* queued, or a set_fast(n) since the last collect_signal(n).  So the bit of a
\* signal never asserted is clear, and the bit is clear after a
\* collect_signal(n) that leaves no queue entry for n.
C4_BitHasAssertion ==
    /\ \A n \in 1..NSIG :
          IsSet(signal, n) => (n \in fastPending \/ Matches(q, n) # {})
    /\ (last.op = "collect_signal" /\ Matches(q, last.sig) = {}) =>
          ~IsSet(signal, last.sig)

\* C4 witness: after a collect of one signal emptied the queue, another
\* signal's bit is still set on the strength of its fast-path send alone
C4_Witness ==
    /\ last.op = "collect_signal"
    /\ last.ret[1].sig_type.Kill # 0
    /\ q = <<>>
    /\ \E n \in SigNums : n # last.sig /\ IsSet(signal, n) /\ n \in fastPending

\* C5: over enqueue / set_fast / collect_signal / flush_by_mask, every signal
\* with a record in the queue has its bit set.
C5_QueuedImpliesBit ==
    \A n \in 1..NSIG : Matches(q, n) # {} => IsSet(signal, n)

\* C5 witness: one record of a signal was collected and a later one of the
\* same signal is still queued, with the bit set
C5_Witness ==
    /\ last.op = "collect_signal"
    /\ last.ret[1].sig_type.Kill = 200
    /\ \E i \in Matches(q, last.sig) : q[i].sig_type.Kill = 100
    /\ IsSet(signal, last.sig)

\* C6: after flush_by_mask(m) no queue entry remains whose signal number n
\* has bit (n-1) set in m.
C6_FlushedNoneLeft ==
    last.op = "queue_flush_by_mask" =>
        \A i \in DOMAIN q : ~IsSet(last.mask, q[i].sig_no)

Unselected(qq, m) == SelectSeq(qq, LAMBDA x : ~IsSet(m, x.sig_no))

\* C7: flush_by_mask(m) removes only entries selected by m: the entries whose
\* bit (n-1) is clear in m are all still queued, in their order.
C7_FlushKeepsUnselected ==
    [][last'.op = "queue_flush_by_mask" =>
          Unselected(q', last'.mask) = Unselected(q, last'.mask)]_vars

\* C8: find_and_delete(sig) on a queue with no entry for sig returns
\* (none, false) and leaves the queue unchanged; otherwise it returns the
\* first matching entry, the queue left is the old one with exactly that entry
\* removed, and still_pending is true iff at least two entries matched.
C8_FindAndDeleteOne ==
    [][last'.op = "find_and_delete" =>
          LET sig == last'.sig
              ms == Matches(q, sig)
          IN  /\ ms = {} =>
                    /\ last'.found = <<>>
                    /\ last'.still_pending = FALSE
                    /\ q' = q
              /\ ms # {} =>
                    /\ last'.found = <<q[Min(ms)]>>
                    /\ q' = RemoveAt(q, Min(ms))
                    /\ Len(q') = Len(q) - 1
                    /\ last'.still_pending <=> Cardinality(ms) >= 2
      ]_vars

\* C8 witness: an entry was found and removed while another entry of the same
\* signal remains queued
C8_Witness ==
    /\ last.op = "find_and_delete"
    /\ last.found # <<>>
    /\ last.still_pending
    /\ Matches(q, last.sig) # {}

\* C9: collect_signal(s) when s is not asserted (bit clear, no queue entry)
\* changes neither the bitset nor the queue and returns the synthesized record
\* {s, SI_USER, errno 0, reserved 0, Kill(0)}.
C9_CollectNotPending ==
    [][(/\ last'.op = "collect_signal"
        /\ ~IsSet(signal, last'.sig)
        /\ Matches(q, last'.sig) = {}) =>
          /\ signal' = signal
          /\ q' = q
          /\ last'.ret = <<Synthesized(last'.sig)>>
      ]_vars

\* C9 witness: a collect of a signal that was not pending, with other signals
\* pending and queued
C9_Witness ==
    /\ last.op = "collect_signal"
    /\ ~last.was_pending
    /\ last.ret = <<Synthesized(last.sig)>>
    /\ q # <<>>
    /\ signal # {}

\* the bag of the records of a queue
SeqToBag(qq) ==
    [e \in {qq[i] : i \in DOMAIN qq} |-> Cardinality({i \in DOMAIN qq : qq[i] = e})]

\* the record the receiver has taken off the queue and not yet returned
InFlight ==
    IF pc[Receiver] \in {"clear", "return"} /\ rx.info # <<>>
    THEN SetToBag({rx.info[1]})
    ELSE EmptyBag

\* C10: with senders and a receiver each working under the pending's lock,
\* every enqueued SigInfo is still in the queue, or is the one the running
\* collect_signal holds, or was returned by exactly one collect_signal (none
\* lost, none returned twice); no enqueue takes effect between collect_signal's
\* queue removal and its clearing of the bit; and whenever no call is in
\* progress every queued record has its bit set.
C10_LockedCollectAtomic ==
    /\ sent = SeqToBag(q) (+) InFlight (+) got
    /\ pc[Receiver] \in {"clear", "return"} => q = rx.q_left
    /\ lock = 0 => \A i \in DOMAIN q : IsSet(signal, q[i].sig_no)

\* C10 witness: a collect returned one record, a second record of the same
\* signal is still queued, and a sender holds the lock for its next send
C10_Witness ==
    /\ BagCardinality(got) = 1
    /\ Len(q) = 1
    /\ BagIn(q[1], got) = FALSE
    /\ \E e \in BagToSet(got) : e.sig_no = q[1].sig_no
    /\ lock \in Senders

\* the kernel-only signals pending in s and not blocked by m
KernelOnlyReady(s, m) == {n \in Ready(s, m) : IsSet(SIG_KERNEL_ONLY_MASK, n)}

\* C11 as stated: whenever SIGKILL or SIGSTOP is pending and not blocked,
\* next_signal selects a kernel-only signal, ahead of every catchable signal
\* that is pending and unblocked.
C11_KernelOnlyFirst ==
    (last.op = "next_signal" /\ KernelOnlyReady(signal, last.mask) # {}) =>
        IsSet(SIG_KERNEL_ONLY_MASK, last.sig)

\* C11 amended: whenever SIGKILL or SIGSTOP is pending and not blocked,
\* next_signal selects it ahead of every pending unblocked signal with a larger
\* number; a pending unblocked signal with a smaller number is selected first.
C11_KernelOnlyBeforeLarger ==
    (last.op = "next_signal" /\ KernelOnlyReady(signal, last.mask) # {}) =>
        LET k == Min(KernelOnlyReady(signal, last.mask))
            lower == {n \in Ready(signal, last.mask) : n < k}
        IN  /\ lower = {} => last.sig = k
            /\ lower # {} => last.sig = Min(lower)

\* C11 witness: SIGKILL is selected while SIGSTOP and signal 64 are pending
\* and the pending lower-numbered signal 1 is blocked
C11_Witness ==
    /\ last.op = "next_signal"
    /\ last.sig = SIGKILL
    /\ IsSet(signal, SIGSTOP) /\ IsSet(signal, NSIG)
    /\ IsSet(signal, 1) /\ IsSet(last.mask, 1)

C13_DefaultIgnoredLikeIgnore ==
    (/\ last.op = "ignore"
     /\ IsSet(SIG_KERNEL_IGNORE_MASK, last.sig)
     /\ sigaction.action = SaHandler(SigDefault)) =>
        last.ret = ignore([sigaction EXCEPT !.action = SaHandler(SigIgnore)], last.sig)

\* C14: copy_siginfo_to_user either copies the whole record into a destination
\* range that lies in user space and returns Ok(0), or returns EFAULT and writes
\* no cell; the source record and the pending state are unchanged either way
C14_CopyAllOrNothing ==
    [][last'.op = "copy_siginfo_to_user" =>
        LET to == last'.to
            src == q[last'.sig]
            dst == to..(to + size_of_SigInfo - 1)
        IN  /\ q' = q
            /\ signal' = signal
            /\ IF dst \subseteq 0..(MemCells - 1)
               THEN /\ last'.ret = Ok(0)
                    /\ \A a \in dst : umem'[a] = SigInfoWords(src)[a - to + 1]
                    /\ \A a \in Addrs \ dst : umem'[a] = umem[a]
               ELSE /\ last'.ret = Err("EFAULT")
                    /\ umem' = umem]_vars

\* a copy whose range starts in user space and runs past its end failed,
\* after an earlier copy to address 0 succeeded
C14_Witness ==
    /\ last.op = "copy_siginfo_to_user"
    /\ last.ret = Err("EFAULT")
    /\ last.to \in 1..(MemCells - 1)
    /\ umem[0] = q[1].sig_no

\* C15: a signal passed to ignore() is in the default-ignore mask exactly when it
\* is SIGCONT, SIGCHLD, SIGIO/POLL, SIGURG or SIGWINCH, and is never in both the
\* default-ignore mask and the core-dump mask
C15_IgnoreMaskExact ==
    last.op = "ignore" =>
        /\ contains(SIG_KERNEL_IGNORE_MASK, into_sigset(last.sig))
               <=> last.sig \in {SIGCONT, SIGCHLD, SIGIO_OR_POLL, SIGURG, SIGWINCH}
        /\ ~ contains(intersection(SIG_KERNEL_IGNORE_MASK, SIG_KERNEL_COREDUMP_MASK),
                      into_sigset(last.sig))

\* C16: a flush leaves the bitset as it was, so a signal whose entries were all
\* flushed is still asserted and still selected by next_signal; collecting an
\* asserted signal that has no entry returns the synthesized record and clears
\* the bit
C16_FlushKeepsBitset ==
    [][/\ last'.op = "flush_by_mask" =>
              /\ signal' = signal
              /\ \A n \in SigNums :
                     (IsSet(signal, n) /\ Matches(q, n) # {} /\ Matches(q', n) = {})
                         => /\ IsSet(signal', n)
                            /\ next_signal(signal', AllBits \ {n - 1}) = n
       /\ (/\ last'.op = "collect_signal"
           /\ IsSet(signal, last'.sig)
           /\ Matches(q, last'.sig) = {}) =>
              /\ last'.ret = <<Synthesized(last'.sig)>>
              /\ ~ IsSet(signal', last'.sig)]_vars

\* a flush has removed every entry of a signal that only enqueue had asserted
C16_Witness ==
    /\ last.op = "flush_by_mask"
    /\ \E n \in SigNums :
           /\ IsSet(signal, n)
           /\ Matches(q, n) = {}
           /\ n \notin fastPending
           /\ contains(last.mask, into_sigset(n))

\* C17: after flush_by_mask with all 64 bits set the queue holds no entry
C17_FlushAllEmpties ==
    last.op = "queue_flush_all" => q = <<>>

\* the purge ran on a queue that held entries
C17_Witness ==
    /\ last.op = "queue_flush_all"
    /\ last.was_pending
    /\ q = <<>>

\* C19: find leaves the queue as it was and returns the entry and the
\* still_pending flag that find_and_delete would return on the same queue;
\* the flag is true exactly when two or more entries carry the signal
C19_FindPreviewsFindAndDelete ==
    [][last'.op = "find" =>
        /\ q' = q
        /\ last'.found = find_and_delete(q, last'.sig).info
        /\ last'.still_pending = find_and_delete(q, last'.sig).still_pending
        /\ last'.still_pending <=> Cardinality(Matches(q, last'.sig)) >= 2]_vars

\* find was called for a signal that has two entries and reported the first
C19_Witness ==
    /\ last.op = "find"
    /\ last.still_pending
    /\ Cardinality(Matches(q, last.sig)) >= 2
    /\ last.found = <<q[Min(Matches(q, last.sig))]>>

\* the entries of qq that do not carry sig, in queue order
Others(qq, sig) == SelectSeq(qq, LAMBDA x : x.sig_no # sig)

\* C20: collect_signal(sig) leaves the bit of every other signal as it was,
\* keeps every entry of every other signal in the same relative order, and
\* returns a record whose sig_no is sig
C20_CollectTouchesOnlySig ==
    [][last'.op = "collect_signal" =>
        /\ \A m \in (1..NSIG) \ {last'.sig} : IsSet(signal', m) <=> IsSet(signal, m)
        /\ Others(q', last'.sig) = Others(q, last'.sig)
        /\ last'.ret[1].sig_no = last'.sig]_vars

\* a queued record was collected, its bit is cleared, and the entries of two
\* other signals are still queued and asserted
C20_Witness ==
    /\ last.op = "collect_signal"
    /\ last.ret[1].sig_type.Kill \in Pids
    /\ ~ IsSet(signal, last.sig)
    /\ Len(q) >= 2
    /\ q[1].sig_no > last.sig
    /\ q[2].sig_no < last.sig
    /\ IsSet(signal, q[1].sig_no)
    /\ IsSet(signal, q[2].sig_no)

\* C18: the drain loop stops after at most (queue length + set bits)
\* iterations, each of which removes an entry or clears a bit, and when
\* next_signal returns INVALID the bitset and the queue are both empty
C18_DrainTerminates ==
    /\ [](drain.iters + Len(q) + Cardinality(signal) <= drain.budget)
    /\ [](next_signal(signal, {}) = INVALID => (signal = {} /\ q = <<>>))
    /\ <>(next_signal(signal, {}) = INVALID)

\* a drain of three or more iterations has emptied a pending state that held
\* queued records
C18_Witness ==
    /\ drain.iters >= 3
    /\ drain.iters < drain.budget
    /\ next_signal(signal, {}) = INVALID
    /\ signal = {}
    /\ q = <<>>

====
